---- MODULE Spec2Model ----
(***************************************************************************)
(* StandardScheduler (src/scheduler.cpp): a std::multimap<Time, Event*>    *)
(* plus the checkpoint `current`.  schedule() inserts one node; check()    *)
(* advances the checkpoint, scans the map from begin() firing every due    *)
(* node, then bulk-erases [begin(), it).  The scan is modelled one loop    *)
(* iteration at a time so that every Event::fire invocation is a step.     *)
(***************************************************************************)
EXTENDS Integers, Sequences, FiniteSets

\* ---- bounds of the model ----
MaxTime == 2
MaxSched == 2
MaxChecks == 2

\* largest value of std::uint32_t (the type of testScheduler's j and k), scaled
\* down from 2^32 - 1 so that a sample count above it is within reach
UInt32Max == 1
\* largest numsamples * numreposts the harness is started with
MaxRegistrations == 2

Times == 0..MaxTime
\* two Event objects: enough to tell the same event from a distinct one
EventRefs == {1, 2}

VARIABLES
    events,     \* EventMap events: sequence of nodes in multimap iteration order
    current,    \* Time current
    pc,         \* position of the caller: "idle", or inside check: "scan", "ret"
    t,          \* argument of the check call in progress / last made
    it,         \* EventMap::iterator it of check, as a position in events
    ret,        \* value returned by the last check call ("none" before the first)
    notify,     \* the Notifier shared by the SimpleEvents
    sched,      \* history: one record per schedule call, indexed by entry id
    fired,      \* history: one record per Event::fire invocation, in order
    ncalls,     \* history: number of check calls entered
    cur0,       \* history: checkpoint at entry of the check call in progress / last made
    ev0,        \* history: events at entry of the check call in progress / last made
    lastOp,     \* history: last completed operation: "none", "schedule", "check"
    argMax,     \* history: largest argument of the check calls made so far
    harness,    \* testScheduler's frame (numsamples, numreposts, j, k, now, result)
    script      \* the caller's remaining script in the scripted scenario

vars == <<events, current, pc, t, it, ret, notify, sched, fired, ncalls, cur0, ev0, lastOp,
          argMax, harness, script>>

Max(a, b) == IF a >= b THEN a ELSE b

RemoveAt(seq, k) == SubSeq(seq, 1, k - 1) \o SubSeq(seq, k + 1, Len(seq))

\* ---- std::multimap<Time, Event*> ----

\* upper_bound(tm): number of nodes whose key is <= tm (the map is key-ordered)
UpperBound(evs, tm) == Cardinality({i \in 1..Len(evs) : evs[i].tm <= tm})

InsertAt(evs, k, e) == SubSeq(evs, 1, k) \o <<e>> \o SubSeq(evs, k + 1, Len(evs))

\* a std::map would refuse a second node with the same key
InsertUnique(evs, e) ==
    IF \E i \in 1..Len(evs) : evs[i].tm = e.tm
    THEN evs
    ELSE InsertAt(evs, UpperBound(evs, e.tm), e)

\* an unordered container would put the node at the end
InsertBack(evs, e) == Append(evs, e)

\* insertion at lower_bound: the node goes before the nodes with an equal key
InsertLower(evs, e) ==
    InsertAt(evs, Cardinality({i \in 1..Len(evs) : evs[i].tm < e.tm}), e)

\* events.insert({t, ev}): the node goes after the last node with an equal key
Insert(evs, e) == InsertAt(evs, UpperBound(evs, e.tm), e)

\* erase that removes nothing
EraseNothing(evs, i) == evs

\* erase of the closed range [begin(), it]
EraseThrough(evs, i) == SubSeq(evs, i + 1, Len(evs))

\* events.erase(events.begin(), it)
EraseRange(evs, i) == SubSeq(evs, i, Len(evs))

\* ---- StandardScheduler::check ----

AdvanceAlways(cur, tt) == tt

\* if (t > current) current = t;
Advance(cur, tt) == IF tt > cur THEN tt ELSE cur

DueAlways(tm, cur) == TRUE

DueOffByOne(tm, cur) == ~(tm > cur + 1)

DueStrict(tm, cur) == tm < cur

\* the scan goes on past a node unless (tm > current)
Due(tm, cur) == ~(tm > cur)

NotAtEnd(evs, i) == i # Len(evs) + 1

\* it != events.begin()
NotAtBegin(evs, i) == i # 1

\* ---- SimpleEvent::fire ----
SimpleFire(n, scheduled, now) ==
    [counter |-> n.counter + 1,
     error   |-> IF (now < scheduled) \/ (now < n.last) THEN TRUE ELSE n.error,
     last    |-> now]

\* ---- construction ----
\* StandardScheduler sch; Notifier notify;
InitScheduler ==
    /\ events = <<>>
    /\ current = 0
    /\ pc = "idle"
    /\ t = 0
    /\ it = 0
    /\ ret = "none"
    /\ notify = [counter |-> 0, last |-> 0, error |-> FALSE]
    /\ sched = <<>>
    /\ fired = <<>>
    /\ ncalls = 0
    /\ cur0 = 0
    /\ ev0 = <<>>
    /\ lastOp = "none"
    /\ argMax = 0

Init ==
    /\ InitScheduler
    /\ harness = [at |-> "off"]
    /\ script = [at |-> "off"]

\* void StandardScheduler::schedule(Event *ev, Time t)
DoSchedule(ev, tm) ==
    /\ pc = "idle"
    /\ events' = Insert(events, [tm |-> tm, ev |-> ev, id |-> Len(sched) + 1])
    /\ sched' = Append(sched, [tm |-> tm, ev |-> ev, cur |-> current, calls |-> ncalls])
    /\ lastOp' = "schedule"
    /\ UNCHANGED <<current, pc, t, it, ret, notify, fired, ncalls, cur0, ev0, argMax>>

\* a schedule call by an arbitrary caller
Schedule(ev, tm) ==
    /\ Len(sched) < MaxSched
    /\ DoSchedule(ev, tm)
    /\ UNCHANGED <<harness, script>>

\* bool StandardScheduler::check(Time t): entry, checkpoint update, it = events.begin()
DoCheckEnter(tt) ==
    /\ pc = "idle"
    /\ t' = tt
    /\ current' = Advance(current, tt)
    /\ it' = 1
    /\ pc' = "scan"
    /\ ncalls' = ncalls + 1
    /\ cur0' = current
    /\ ev0' = events
    /\ argMax' = Max(argMax, tt)
    /\ UNCHANGED <<events, ret, notify, sched, fired, lastOp>>

\* a check call by an arbitrary caller
CheckEnter(tt) ==
    /\ ncalls < MaxChecks
    /\ DoCheckEnter(tt)
    /\ UNCHANGED <<harness, script>>

\* one iteration of the for loop that reaches ev->fire(tm, current); it++
Fire ==
    /\ pc = "scan"
    /\ it # Len(events) + 1
    /\ Due(events[it].tm, current)
    /\ notify' = SimpleFire(notify, events[it].tm, current)
    /\ fired' = Append(fired, [id |-> events[it].id, ev |-> events[it].ev,
                               scheduled |-> events[it].tm, now |-> current,
                               call |-> ncalls, arg |-> t, prev |-> cur0])
    /\ it' = it + 1
    /\ UNCHANGED <<events, current, pc, t, ret, sched, ncalls, cur0, ev0, lastOp,
                   argMax, harness, script>>

\* the loop ends: it == events.end(), or break on the first node that is not due
LoopExit ==
    /\ pc = "scan"
    /\ \/ it = Len(events) + 1
       \/ /\ it # Len(events) + 1
          /\ ~Due(events[it].tm, current)
    /\ pc' = "ret"
    /\ UNCHANGED <<events, current, t, it, ret, notify, sched, fired, ncalls, cur0, ev0, lastOp,
                   argMax, harness, script>>

\* if (it != events.begin()) { erase; return true; } return false;
CheckReturn ==
    /\ pc = "ret"
    /\ IF NotAtBegin(events, it)
       THEN /\ events' = EraseRange(events, it)
            /\ ret' = TRUE
       ELSE /\ events' = events
            /\ ret' = FALSE
    /\ pc' = "idle"
    /\ it' = 0
    /\ lastOp' = "check"
    /\ UNCHANGED <<current, t, notify, sched, fired, ncalls, cur0, ev0, argMax, harness, script>>

Next ==
    \/ \E ev \in EventRefs, tm \in Times : Schedule(ev, tm)
    \/ \E tt \in Times : CheckEnter(tt)
    \/ Fire
    \/ LoopExit
    \/ CheckReturn

Spec == Init /\ [][Next]_vars

\* ---- an Event whose fire calls schedule on the scheduler that is firing it ----

\* the position of the node an iterator points at; multimap::insert leaves
\* iterators valid, so the iterator follows its node
IndexOf(evs, id) == CHOOSE k \in DOMAIN evs : evs[k].id = id

\* one iteration of the for loop, with ev->fire(tm, current) calling
\* schedule(ev2, tm2) before it returns; then it++
FireReschedule(ev2, tm2) ==
    /\ pc = "scan"
    /\ it # Len(events) + 1
    /\ Due(events[it].tm, current)
    /\ Len(sched) < MaxSched
    /\ notify' = SimpleFire(notify, events[it].tm, current)
    /\ fired' = Append(fired, [id |-> events[it].id, ev |-> events[it].ev,
                               scheduled |-> events[it].tm, now |-> current,
                               call |-> ncalls, arg |-> t, prev |-> cur0])
    /\ events' = Insert(events, [tm |-> tm2, ev |-> ev2, id |-> Len(sched) + 1])
    /\ sched' = Append(sched, [tm |-> tm2, ev |-> ev2, cur |-> current, calls |-> ncalls])
    /\ it' = IndexOf(events', events[it].id) + 1
    /\ UNCHANGED <<current, pc, t, ret, ncalls, cur0, ev0, lastOp, argMax, harness, script>>

ReentrantNext ==
    \/ Next
    \/ \E ev \in EventRefs, tm \in Times : FireReschedule(ev, tm)

ReentrantSpec == Init /\ [][ReentrantNext]_vars

\* ---- a caller that follows a script: deadlines {3, 3, 7, 20} scheduled
\* ---- in any order on any events, then check(5), check(5), check(10), check(20)
ScenarioDeadlines == <<3, 3, 7, 20>>
ScenarioChecks == <<5, 5, 10, 20>>

ScenarioInit ==
    /\ InitScheduler
    /\ harness = [at |-> "off"]
    /\ script = [at |-> "on", left |-> ScenarioDeadlines, checks |-> ScenarioChecks]

ScenarioSchedule ==
    /\ script.at = "on"
    /\ \E k \in DOMAIN script.left, ev \in EventRefs :
          /\ DoSchedule(ev, script.left[k])
          /\ script' = [script EXCEPT !.left = RemoveAt(@, k)]
    /\ UNCHANGED harness

ScenarioCheck ==
    /\ script.at = "on"
    /\ script.left = <<>>
    /\ script.checks # <<>>
    /\ DoCheckEnter(Head(script.checks))
    /\ script' = [script EXCEPT !.checks = Tail(@)]
    /\ UNCHANGED harness

ScenarioNext ==
    \/ ScenarioSchedule
    \/ ScenarioCheck
    \/ Fire
    \/ LoopExit
    \/ CheckReturn

ScenarioSpec == ScenarioInit /\ [][ScenarioNext]_vars

\* ---- bool testScheduler(Scheduler &sch, uint64_t numsamples, uint32_t numreposts) ----
\* std::uniform_int_distribution<std::uint64_t> dist(0, 10 * numsamples);
\* for (Time now = 0; now <= numsamples * 10; now += 5)
\* (Time is 64 bits wide: with numsamples small enough for the vector of
\* events to exist, 10 * numsamples and now + 5 stay below 2^64)
DeadlineSpan == 10
DriveStep == 5

\* std::uint32_t ++j
Incr32(j) == (j + 1) % (UInt32Max + 1)

\* numsamples is a std::uint64_t: it can exceed what j can count to
HarnessInputs ==
    {in \in (1..(UInt32Max + 1)) \X (1..MaxRegistrations) : in[1] * in[2] <= MaxRegistrations}

HarnessInit ==
    /\ InitScheduler
    /\ script = [at |-> "off"]
    /\ \E in \in HarnessInputs :
          harness = [at |-> "schedule", numsamples |-> in[1], numreposts |-> in[2],
                     j |-> 0, k |-> 0, now |-> 0, result |-> "none"]

\* the body of the two for loops: sch.schedule(&events[j], dist(g)); ++k, and
\* ++j with k = 0 when k reaches numreposts.  The guard on Len(sched) stops
\* the model one schedule call after the numsamples * numreposts-th.
HarnessSchedule ==
    /\ harness.at = "schedule"
    /\ harness.j < harness.numsamples
    /\ harness.k < harness.numreposts
    /\ Len(sched) <= harness.numsamples * harness.numreposts
    /\ \E scheduled \in 0..(DeadlineSpan * harness.numsamples) :
          DoSchedule(harness.j + 1, scheduled)
    /\ harness' = IF harness.k + 1 < harness.numreposts
                  THEN [harness EXCEPT !.k = @ + 1]
                  ELSE [harness EXCEPT !.k = 0, !.j = Incr32(@)]
    /\ UNCHANGED script

\* j < numsamples fails: the schedule loop ends, now = 0
HarnessScheduled ==
    /\ harness.at = "schedule"
    /\ ~(harness.j < harness.numsamples)
    /\ harness' = [harness EXCEPT !.at = "drive", !.now = 0]
    /\ UNCHANGED <<events, current, pc, t, it, ret, notify, sched, fired, ncalls, cur0, ev0,
                   lastOp, argMax, script>>

\* sch.check(now); now += 5
HarnessCheck ==
    /\ harness.at = "drive"
    /\ harness.now <= harness.numsamples * DeadlineSpan
    /\ DoCheckEnter(harness.now)
    /\ harness' = [harness EXCEPT !.now = @ + DriveStep]
    /\ UNCHANGED script

\* the drive loop ends: return !(notify.error || notify.counter != numsamples * numreposts)
HarnessReturn ==
    /\ harness.at = "drive"
    /\ pc = "idle"
    /\ ~(harness.now <= harness.numsamples * DeadlineSpan)
    /\ harness' = [harness EXCEPT
                      !.at = "done",
                      !.result = ~(notify.error
                                   \/ notify.counter # harness.numsamples * harness.numreposts)]
    /\ UNCHANGED <<events, current, pc, t, it, ret, notify, sched, fired, ncalls, cur0, ev0,
                   lastOp, argMax, script>>

HarnessNext ==
    \/ HarnessSchedule
    \/ HarnessScheduled
    \/ HarnessCheck
    \/ Fire
    \/ LoopExit
    \/ CheckReturn
    \/ HarnessReturn

HarnessSpec == HarnessInit /\ [][HarnessNext]_vars

\* check runs to completion on the caller's thread: the loop and the return
\* are never suspended
FairSpec == Spec /\ WF_vars(Fire) /\ WF_vars(LoopExit) /\ WF_vars(CheckReturn)

\* ---- vocabulary of the properties ----

FiredIds == {fired[i].id : i \in DOMAIN fired}
FiredIn(c) == {fired[i].id : i \in {j \in DOMAIN fired : fired[j].call = c}}
PendingIds == {events[i].id : i \in DOMAIN events}
\* the last operation to complete was a check call
Returned == pc = "idle" /\ lastOp = "check"

\* C1: every entry created by a schedule call is fired at most once over the
\* lifetime of the scheduler, whether by two check calls or within one.
C1_AtMostOnce ==
    \A i, j \in DOMAIN fired : fired[i].id = fired[j].id => i = j

\* an entry fired in an earlier call, whose erase made room for another entry
\* fired in a later call that has returned
C1_Witness ==
    /\ Returned
    /\ \E i, j \in DOMAIN fired : fired[i].call < fired[j].call

\* C2: every invocation fire(scheduled, now) made by check has now >= scheduled.
C2_NotBeforeDeadline ==
    \A i \in DOMAIN fired : fired[i].now >= fired[i].scheduled

\* an entry fired exactly at its deadline while a later entry stays pending
C2_Witness ==
    /\ \E i \in DOMAIN fired : fired[i].now = fired[i].scheduled /\ fired[i].now > 0
    /\ \E k \in DOMAIN events : events[k].tm > current

\* C3 as stated: an entry with deadline d is fired only inside a call check(t)
\* whose argument t satisfies t >= d.
C3_Original ==
    \A i \in DOMAIN fired : fired[i].arg >= fired[i].scheduled

\* C3 amended: an entry with deadline d is fired only inside a call check(t)
\* for which max(checkpoint before the call, t) >= d; so t >= d whenever t is
\* not below the checkpoint the call found.
C3_FiresOnlyWhenReached ==
    \A i \in DOMAIN fired :
        /\ Max(fired[i].prev, fired[i].arg) >= fired[i].scheduled
        /\ (fired[i].arg >= fired[i].prev => fired[i].arg >= fired[i].scheduled)

\* an entry fired by a check call whose argument is below the entry's deadline
C3_Witness ==
    \E i \in DOMAIN fired :
        /\ fired[i].arg < fired[i].scheduled
        /\ fired[i].prev >= fired[i].scheduled

\* C4: over all fire invocations of one scheduler, in the order they happen,
\* the now values are non-decreasing (and SimpleEvent::fire never flags one).
C4_NowMonotonic ==
    /\ \A i, j \in DOMAIN fired : i < j => fired[i].now <= fired[j].now
    /\ \A i \in DOMAIN fired : i < Len(fired) => fired[i].now <= notify.last

\* fire invocations in two calls, the later call with the smaller argument
C4_Witness ==
    \E i, j \in DOMAIN fired :
        /\ i < j
        /\ fired[i].call < fired[j].call
        /\ fired[j].arg < fired[i].arg

\* C5: when check(t) returns, every entry pending at the start of the call
\* with deadline <= max(previous checkpoint, t) was fired during the call and
\* is out of the index; no entry with deadline <= checkpoint remains pending.
C5_DueAllFired ==
    Returned =>
        /\ \A k \in DOMAIN ev0 :
              ev0[k].tm <= Max(cur0, t) =>
                  /\ ev0[k].id \in FiredIn(ncalls)
                  /\ ev0[k].id \notin PendingIds
        /\ \A k \in DOMAIN events : events[k].tm > current

\* a call that advanced the checkpoint, fired an entry and left a later one pending
C5_Witness ==
    /\ Returned
    /\ t > cur0
    /\ FiredIn(ncalls) # {}
    /\ events # <<>>

\* the entries ever scheduled with deadline <= the argument of the check call
\* in progress / last made that have not fired
DueUnfired == {id \in DOMAIN sched : sched[id].tm <= t /\ id \notin FiredIds}

\* C6: no entry is silently dropped: once check is called with an argument
\* >= the deadline of scheduled entries that have not fired, the call
\* eventually returns with all of them fired; and whenever a check call has
\* returned, every entry ever scheduled with deadline <= its argument has fired.
C6_NoSilentLoss ==
    /\ (pc = "scan" /\ DueUnfired # {}) ~> (Returned /\ DueUnfired = {})
    /\ [](Returned => DueUnfired = {})

\* two entries share a deadline and both have fired once a call has returned
C6_Witness ==
    /\ Returned
    /\ \E a, b \in DOMAIN sched :
          /\ a # b
          /\ sched[a].tm = sched[b].tm
          /\ sched[a].tm <= t
          /\ {a, b} \subseteq FiredIds

\* C7: the checkpoint starts at 0, is changed only by check, after check(t)
\* it equals max(checkpoint before the call, t); a smaller t leaves it
\* unchanged and re-fires nothing, so the checkpoint never decreases.
C7_Checkpoint ==
    /\ current = 0
    /\ [][/\ current' >= current
          /\ (current' # current => pc = "idle" /\ pc' = "scan")
          /\ (pc = "idle" /\ pc' = "scan" => current' = Max(current, t'))
          /\ (pc = "ret" /\ pc' = "idle" =>
                /\ current' = Max(cur0, t)
                /\ (t < cur0 => current' = cur0)
                /\ \A i, j \in DOMAIN fired :
                      fired[j].call = ncalls /\ i < j => fired[i].id # fired[j].id)]_vars

\* a returned check(t) with t below the checkpoint it found, after earlier firings,
\* that fired an entry itself
C7_Witness ==
    /\ Returned
    /\ t < cur0
    /\ current = cur0
    /\ FiredIn(ncalls) # {}
    /\ \E i \in DOMAIN fired : fired[i].call < ncalls

\* C8: an entry scheduled with deadline <= the current checkpoint is accepted
\* and is fired during the very next check call, whatever its argument.
C8_PastDeadlineNextCheck ==
    \A id \in DOMAIN sched :
        sched[id].tm <= sched[id].cur =>
            /\ (id \notin FiredIds => id \in PendingIds)
            /\ (\/ ncalls > sched[id].calls + 1
                \/ (ncalls = sched[id].calls + 1 /\ pc = "idle"))
               => id \in FiredIn(sched[id].calls + 1)

\* a past-deadline entry fired by a next check call whose argument is below
\* the deadline, while an entry scheduled earlier is still pending
C8_Witness ==
    /\ Returned
    /\ \E id \in DOMAIN sched :
          /\ sched[id].tm <= sched[id].cur
          /\ sched[id].calls > 0
          /\ id \in FiredIn(ncalls)
          /\ t < sched[id].tm
    /\ events # <<>>

\* C9: check(t) returns true if and only if at least one entry was fired
\* during that call.
C9_ReturnValue ==
    Returned => (ret = TRUE <=> FiredIn(ncalls) # {})

\* one call has returned true and the last one returned false with entries pending
C9_Witness ==
    /\ Returned
    /\ ret = FALSE
    /\ events # <<>>
    /\ fired # <<>>

\* C10: check(t) with t <= checkpoint and no pending entry with deadline <=
\* checkpoint returns false, fires nothing and leaves the checkpoint and the
\* pending entries unchanged (so repeating the call changes nothing).
C10_EmptyCheckNoOp ==
    Returned /\ t <= cur0 /\ (\A k \in DOMAIN ev0 : ev0[k].tm > cur0) =>
        /\ ret = FALSE
        /\ FiredIn(ncalls) = {}
        /\ current = cur0
        /\ events = ev0

\* such a call returned with entries pending, after a call that fired
C10_Witness ==
    /\ Returned
    /\ t <= cur0
    /\ cur0 > 0
    /\ ev0 # <<>>
    /\ \A k \in DOMAIN ev0 : ev0[k].tm > cur0
    /\ fired # <<>>

\* C11: within one check call, due entries are fired in non-decreasing
\* deadline order.
C11_DeadlineOrder ==
    \A i, j \in DOMAIN fired :
        i < j /\ fired[i].call = fired[j].call => fired[i].scheduled <= fired[j].scheduled

\* one call fired two entries of different deadlines, the later deadline
\* having been scheduled first
C11_Witness ==
    \E i, j \in DOMAIN fired :
        /\ i < j
        /\ fired[i].call = fired[j].call
        /\ fired[i].scheduled < fired[j].scheduled
        /\ fired[i].id > fired[j].id

\* C12: every schedule call creates an independent entry, whether the event
\* or the deadline repeats; fire is invoked once per schedule call whose
\* deadline check has reached, on that call's event with that call's deadline.
C12_IndependentEntries ==
    /\ \A i \in DOMAIN fired :
          /\ fired[i].id \in DOMAIN sched
          /\ fired[i].ev = sched[fired[i].id].ev
          /\ fired[i].scheduled = sched[fired[i].id].tm
    /\ pc = "idle" => Len(events) + Len(fired) = Len(sched)
    /\ Returned =>
          \A ev \in EventRefs :
              Cardinality({i \in DOMAIN fired : fired[i].ev = ev})
                  = Cardinality({id \in DOMAIN sched :
                                     sched[id].ev = ev /\ sched[id].tm <= current})

\* one event registered twice under one deadline, fired twice
C12_Witness ==
    /\ Returned
    /\ \E i, j \in DOMAIN fired :
          /\ i # j
          /\ fired[i].ev = fired[j].ev
          /\ fired[i].scheduled = fired[j].scheduled

\* the entries the check call in progress has fired
FiredNow == IF pc = "idle" THEN {} ELSE FiredIn(ncalls)

\* C15 as stated: an entry is removed from the index immediately upon firing:
\* when a later entry's fire is invoked in the same check call, every entry
\* already fired in that call is no longer in the index.
C15_Original ==
    pc # "idle" =>
        \A i \in DOMAIN fired :
            fired[i].call = ncalls /\ i < Len(fired) => fired[i].id \notin PendingIds

\* C15 amended: a fired entry stays in the index, behind the iterator, until
\* the scan ends; the bulk erase of the check call that fired it removes it,
\* so no fired entry is in the index once check has returned; and a fired
\* entry is never visited again.
C15_RemovedByBulkErase ==
    /\ pc = "idle" => PendingIds \cap FiredIds = {}
    /\ pc # "idle" =>
          /\ {events[k].id : k \in 1..(it - 1)} = FiredNow
          /\ PendingIds \cap FiredIds = FiredNow
          /\ \A k \in it..Len(events) : events[k].id \notin FiredIds

\* the scan has fired two entries and both are still in the index
C15_Witness ==
    /\ pc = "scan"
    /\ Cardinality(FiredNow) >= 2
    /\ FiredNow \subseteq PendingIds

\* C16: every fire invocation receives as scheduled the deadline given to the
\* schedule call that created the entry, and as now the checkpoint after the
\* update, the largest check argument so far, which need not be t.
C16_FireArguments ==
    \A i \in DOMAIN fired :
        /\ fired[i].scheduled = sched[fired[i].id].tm
        /\ fired[i].now = Max(fired[i].prev, fired[i].arg)
        /\ fired[i].call = ncalls => fired[i].now = argMax /\ fired[i].now = current

\* an entry fired with now above the argument of the call that fired it
C16_Witness ==
    \E i \in DOMAIN fired :
        /\ fired[i].call = ncalls
        /\ fired[i].now > fired[i].arg
        /\ fired[i].now > fired[i].scheduled

\* C17: schedule(event, deadline) adds exactly one entry (deadline, event),
\* leaves the existing entries and the checkpoint unchanged and fires nothing,
\* also when the deadline is <= the checkpoint.
C17_ScheduleFrame ==
    [][Len(sched') = Len(sched) + 1 =>
          /\ \E k \in DOMAIN events' :
                /\ RemoveAt(events', k) = events
                /\ events'[k].tm = sched'[Len(sched')].tm
                /\ events'[k].ev = sched'[Len(sched')].ev
                /\ events'[k].id = Len(sched')
          /\ current' = current
          /\ fired' = fired
          /\ notify' = notify
          /\ ret' = ret]_vars

\* a schedule call with a deadline below the checkpoint has just been made,
\* next to an entry that was pending before
C17_Witness ==
    /\ lastOp = "schedule"
    /\ sched[Len(sched)].tm < current
    /\ Len(events) >= 2
    /\ fired = <<>>

Later(evs, cur) == SelectSeq(evs, LAMBDA e : e.tm > cur)

\* C18: check(t) neither fires nor removes an entry whose deadline is above
\* the updated checkpoint: the pending entries with deadline > checkpoint are
\* the same before and after the call, and check adds no entry.
C18_CheckFrame ==
    /\ pc # "idle" => Later(events, current) = Later(ev0, current)
    /\ Returned =>
          /\ Later(events, current) = Later(ev0, current)
          /\ PendingIds \subseteq {ev0[k].id : k \in DOMAIN ev0}
    /\ \A i \in DOMAIN fired : fired[i].call = ncalls => fired[i].scheduled <= current

\* a check call has returned true and left the entries above the checkpoint
C18_Witness ==
    /\ Returned
    /\ ret = TRUE
    /\ ev0 # events
    /\ \E k \in DOMAIN events : events[k].tm > current

\* C19: entries with equal deadlines are fired in the order in which they
\* were scheduled.
C19_FifoWithinTie ==
    \A i, j \in DOMAIN fired :
        i < j /\ fired[i].scheduled = fired[j].scheduled => fired[i].id < fired[j].id

\* one call fired two entries of one deadline
C19_Witness ==
    \E i, j \in DOMAIN fired :
        /\ i < j
        /\ fired[i].call = fired[j].call
        /\ fired[i].scheduled = fired[j].scheduled
        /\ fired[i].ev # fired[j].ev

\* C20: when a fire callback calls schedule on the scheduler that is scanning,
\* the entry it adds is never removed from the index without having been
\* fired: every entry that has left the index was fired.
C20_ErasedOnlyIfFired ==
    \A id \in DOMAIN sched : id \notin PendingIds => id \in FiredIds

\* the (scheduled, now) pairs of the fire invocations of check call c, in order
FiredBy(c) ==
    LET recs == SelectSeq(fired, LAMBDA r : r.call = c)
    IN  [i \in DOMAIN recs |-> <<recs[i].scheduled, recs[i].now>>]

ScenarioFired == << <<<<3, 5>>, <<3, 5>>>>, <<>>, <<<<7, 10>>>>, <<<<20, 20>>>> >>
ScenarioReturns == <<TRUE, FALSE, TRUE, TRUE>>

\* C14: after scheduling deadlines {3, 3, 7, 20} on an empty scheduler,
\* check(5) fires exactly the two deadline-3 entries with now = 5 and returns
\* true, a second check(5) fires nothing and returns false, check(10) fires
\* exactly the deadline-7 entry with now = 10 and returns true, check(20)
\* fires exactly the deadline-20 entry with now = 20 and returns true: 4 firings.
C14_Scenario ==
    script.at = "on" /\ Returned =>
        /\ \A c \in 1..ncalls : FiredBy(c) = ScenarioFired[c]
        /\ ret = ScenarioReturns[ncalls]
        /\ ncalls = Len(ScenarioChecks) => Len(fired) = 4 /\ Len(fired) = Len(sched)

\* the script has run to its end: four check calls returned, four firings
C14_Witness ==
    /\ script.at = "on"
    /\ script.checks = <<>>
    /\ Returned
    /\ ncalls = 4
    /\ Len(fired) = 4
    /\ events = <<>>

\* C13: for every sample count N >= 1, repeat count R >= 1 and every choice
\* of the N*R deadlines in [0, 10*N], testScheduler registers its N*R
\* deadlines and ends the drive with the error flag unset and the counter
\* equal to N*R, and so returns true.
C13_HarnessPasses ==
    harness.at # "off" =>
        /\ Len(sched) <= harness.numsamples * harness.numreposts
        /\ harness.at = "done" =>
              /\ ~notify.error
              /\ notify.counter = harness.numsamples * harness.numreposts
              /\ harness.result = TRUE

====
